---- MODULE Spec2Model ----
(***************************************************************************)
(* A model of analyze-hack.js: main(ns) and its helper                     *)
(* getRatesAtHackLevel(server, player, hackLevel).                         *)
(*                                                                         *)
(* JavaScript numbers are modelled exactly as decimal-scaled rationals     *)
(* <<n, d, e>> = (n / d) * 10^e, in canonical form, with the IEEE special  *)
(* values Infinity = <<1,0,0>>, -Infinity = <<-1,0,0>>, NaN = <<0,0,0>>.   *)
(* Rounding of doubles is not modelled.  Math.log and Math.exp are         *)
(* modelled by their first-order expansions (see Ln, Exp).                 *)
(***************************************************************************)
EXTENDS Integers, Sequences, FiniteSets, TLC

----------------------------------------------------------------------------
(* Numbers *)

Abs(x) == IF x < 0 THEN -x ELSE x

Sgn(x) == IF x < 0 THEN -1 ELSE IF x > 0 THEN 1 ELSE 0

RECURSIVE GCD(_, _)
GCD(a, b) == IF b = 0 THEN a ELSE GCD(b, a % b)

RECURSIVE Pow10(_)
Pow10(k) == IF k = 0 THEN 1 ELSE 10 * Pow10(k - 1)

\* Canonical form of a finite non-zero (n/d)*10^e with gcd(n,d) = 1, d > 0:
\* every factor 5 of n and of d is moved into the power of ten, which keeps
\* gcd(n,d) = 1 and never makes n or d larger than 5^k was.
RECURSIVE Strip(_, _, _)
Strip(n, d, e) ==
  IF d % 10 = 0 THEN Strip(n, d \div 10, e - 1)
  ELSE IF d % 5 = 0 THEN Strip(n * 2, d \div 5, e - 1)
  ELSE IF n % 10 = 0 THEN Strip(n \div 10, d, e + 1)
  ELSE IF n % 5 = 0 THEN Strip(n \div 5, d * 2, e + 1)
  ELSE <<n, d, e>>

\* Canonical form of (n/d)*10^e, d >= 0.  d = 0 gives +-Infinity or NaN.
Norm(n, d, e) ==
  IF d = 0 THEN <<Sgn(n), 0, 0>>
  ELSE IF n = 0 THEN <<0, 1, 0>>
  ELSE LET g == GCD(Abs(n), d)
       IN  Strip(Sgn(n) * (Abs(n) \div g), d \div g, e)

Num(k) == Norm(k, 1, 0)

\* The decimal literal n * 10^e, e.g. Dec(17, -1) is 1.7
Dec(n, e) == Norm(n, 1, e)

Zero == <<0, 1, 0>>

One == <<1, 1, 0>>

Infinity == <<1, 0, 0>>

NaN == <<0, 0, 0>>

\* The value of a variable or property that was never assigned
Undefined == <<>>

IsNaN(a) == a = NaN

Neg(a) == <<-a[1], a[2], a[3]>>

Mul(a, b) ==
  LET g1 == GCD(Abs(a[1]), b[2])
      g2 == GCD(Abs(b[1]), a[2])
      h1 == IF g1 = 0 THEN 1 ELSE g1
      h2 == IF g2 = 0 THEN 1 ELSE g2
  IN  Norm((a[1] \div h1) * (b[1] \div h2),
           (a[2] \div h2) * (b[2] \div h1),
           a[3] + b[3])

\* a / b as JavaScript computes it: x/0 is +-Infinity, 0/0 is NaN
Div(a, b) ==
  IF b[1] = 0 /\ b[2] # 0
  THEN Norm(a[1], 0, 0)
  ELSE IF a[2] = 0 /\ b[2] = 0 THEN NaN
  ELSE IF b[2] = 0 THEN (IF IsNaN(a) THEN NaN ELSE Zero)
  ELSE LET g1 == GCD(Abs(a[1]), Abs(b[1]))
           g2 == GCD(a[2], b[2])
           h1 == IF g1 = 0 THEN 1 ELSE g1
           h2 == IF g2 = 0 THEN 1 ELSE g2
       IN  Norm(Sgn(b[1]) * (a[1] \div h1) * (b[2] \div h2),
                (a[2] \div h2) * (Abs(b[1]) \div h1),
                a[3] - b[3])

Add(a, b) ==
  IF IsNaN(a) \/ IsNaN(b) THEN NaN
  ELSE IF a[2] = 0 /\ b[2] = 0 THEN (IF a = b THEN a ELSE NaN)
  ELSE IF a[2] = 0 THEN a
  ELSE IF b[2] = 0 THEN b
  ELSE IF a[1] = 0 THEN b
  ELSE IF b[1] = 0 THEN a
  ELSE LET e == IF a[3] < b[3] THEN a[3] ELSE b[3]
           g == GCD(a[2], b[2])
       IN  Norm(a[1] * Pow10(a[3] - e) * (b[2] \div g)
                  + b[1] * Pow10(b[3] - e) * (a[2] \div g),
                (a[2] \div g) * b[2],
                e)

Sub(a, b) == Add(a, Neg(b))

\* The sign of X * 10^k - Y for X, Y > 0
RECURSIVE CmpScaled(_, _, _)
CmpScaled(X, Y, k) ==
  IF k = 0 THEN Sgn(X - Y)
  ELSE IF k > 0 THEN (IF X > Y THEN 1 ELSE CmpScaled(X * 10, Y, k - 1))
  ELSE (IF Y > X THEN -1 ELSE CmpScaled(X, Y * 10, k + 1))

CmpPos(a, b) ==
  IF a = b THEN 0
  ELSE IF a[2] = 0 THEN 1
  ELSE IF b[2] = 0 THEN -1
  ELSE LET g1 == GCD(a[1], b[1])
           g2 == GCD(a[2], b[2])
       IN  CmpScaled((a[1] \div g1) * (b[2] \div g2),
                     (b[1] \div g1) * (a[2] \div g2),
                     a[3] - b[3])

\* The sign of a - b for numbers that are not NaN
Cmp(a, b) ==
  IF a = b THEN 0
  ELSE IF Sgn(a[1]) # Sgn(b[1]) THEN (IF Sgn(a[1]) < Sgn(b[1]) THEN -1 ELSE 1)
  ELSE IF a[1] > 0 THEN CmpPos(a, b)
  ELSE CmpPos(Neg(b), Neg(a))

\* The JavaScript comparisons: every comparison with NaN is false
Lt(a, b) == ~IsNaN(a) /\ ~IsNaN(b) /\ Cmp(a, b) < 0

Le(a, b) == ~IsNaN(a) /\ ~IsNaN(b) /\ Cmp(a, b) <= 0

Gt(a, b) == Lt(b, a)

Ge(a, b) == Le(b, a)

\* Math.min and Math.max of two numbers
MathMin(a, b) ==
  IF IsNaN(a) \/ IsNaN(b) THEN NaN ELSE IF Cmp(a, b) <= 0 THEN a ELSE b

MathMax(a, b) ==
  IF IsNaN(a) \/ IsNaN(b) THEN NaN ELSE IF Cmp(a, b) >= 0 THEN a ELSE b

\* The truthiness of a number: 0 and NaN are falsy
Truthy(a) == a # Zero /\ a # NaN

\* Math.log(y), first-order about 1: exact at 1, increasing, <= 0 below 1
Ln(y) == Sub(y, One)

\* Math.log(1 - h), first-order about h = 0
LnOneMinus(h) == Neg(h)

\* Math.exp(x), first-order about 0: exact at 0, increasing
Exp(x) == Add(One, x)

----------------------------------------------------------------------------
(* The environment: the network scan, the servers and the formulas API *)

\* The player's real hacking skill ranges over 1..MaxSkill
MaxSkill == 2

\* scanAllServers(ns), in scan order
serverNames ==
  <<"home", "n00dles", "joesguns", "foodnstuff", "CSEC", "hacknet-server-0">>

Hosts == {serverNames[k] : k \in 1..Len(serverNames)}

\* The sets of servers the player may have gained admin rights on
RootedChoices == {{}, {"n00dles", "joesguns", "foodnstuff", "CSEC"}}

\* ns.getServer(hostname) for a player with admin rights on `rooted`
GetServer(h, rooted) ==
  LET own == h \in {"home", "hacknet-server-0"}
      base == [hostname |-> h,
               purchasedByPlayer |-> own,
               hasAdminRights |-> own \/ h \in rooted,
               theoreticalGainRate |-> Undefined,
               gainRate |-> Undefined,
               expRate |-> Undefined,
               estHackPercent |-> Undefined]
  IN  CASE h = "home" ->
             base @@ [maxRam |-> Num(8), moneyMax |-> Zero,
                      moneyAvailable |-> Zero, minDifficulty |-> Num(1),
                      hackDifficulty |-> Num(1), requiredHackingSkill |-> 1]
        [] h = "n00dles" ->
             base @@ [maxRam |-> Num(4), moneyMax |-> Num(70),
                      moneyAvailable |-> Num(7), minDifficulty |-> Num(1),
                      hackDifficulty |-> Num(2), requiredHackingSkill |-> 1]
        [] h = "joesguns" ->
             base @@ [maxRam |-> Num(16), moneyMax |-> Num(2500),
                      moneyAvailable |-> Num(250), minDifficulty |-> Num(5),
                      hackDifficulty |-> Num(15), requiredHackingSkill |-> 3]
        [] h = "foodnstuff" ->
             base @@ [maxRam |-> Num(16), moneyMax |-> Num(2000),
                      moneyAvailable |-> Num(200), minDifficulty |-> Num(3),
                      hackDifficulty |-> Num(10), requiredHackingSkill |-> 2]
        [] h = "CSEC" ->
             base @@ [maxRam |-> Num(8), moneyMax |-> Zero,
                      moneyAvailable |-> Zero, minDifficulty |-> Num(1),
                      hackDifficulty |-> Num(1), requiredHackingSkill |-> 2]
        [] OTHER ->
             base @@ [maxRam |-> Num(8192), moneyMax |-> Zero,
                      moneyAvailable |-> Zero, minDifficulty |-> Num(1),
                      hackDifficulty |-> Num(1), requiredHackingSkill |-> 1]

\* ns.getWeakenTime(hostname), in milliseconds
GetWeakenTime(h) ==
  CASE h = "n00dles" -> Num(400)
    [] h = "joesguns" -> Num(2000)
    [] h = "foodnstuff" -> Num(1000)
    [] OTHER -> Num(4000)

\* What one evaluation can get from ns.formulas.hacking: the three times (ms),
\* growPercent, hackPercent, hackChance and hackExp
Responses ==
  {[weakenTime |-> Num(100), growTime |-> Num(32), hackTime |-> Num(10),
    growPercent |-> Dec(107, -2), hackPercent |-> Dec(24, -3),
    hackChance |-> Dec(5, -1), hackExp |-> Num(1)],
   [weakenTime |-> Num(50), growTime |-> Num(16), hackTime |-> Num(5),
    growPercent |-> Dec(135, -2), hackPercent |-> Dec(24, -3),
    hackChance |-> One, hackExp |-> Zero],
   [weakenTime |-> Num(100), growTime |-> Num(32), hackTime |-> Num(10),
    growPercent |-> Dec(107, -2), hackPercent |-> Zero,
    hackChance |-> One, hackExp |-> Num(2)]}

\* The call of ns.formulas.hacking, in program order, that throws; 0 for none.
\* 1 weakenTime, 2 growTime, 3 hackTime, 4 growPercent, 5 hackPercent,
\* 6 hackChance, 7 hackExp, 8 hackChance (in the log line)
ThrowAt == 0..8

\* The command lines: argsSchema with the values the model tries
HackPercentChoices == {-1, 0, 50, 150}

AtHackLevelChoices == {0, 3}

OptionChoices ==
  {("all" :> a) @@ ("silent" :> s) @@ ("at-hack-level" :> l)
     @@ ("hack-percent" :> p) @@ ("include-hacknet-ram" :> n)
     @@ ("disable-formulas-api" :> f) :
     a \in BOOLEAN, s \in BOOLEAN, l \in AtHackLevelChoices,
     p \in HackPercentChoices, n \in BOOLEAN, f \in BOOLEAN}

----------------------------------------------------------------------------
(* The program state *)

VARIABLES
  pc,                  \* where main is: "main", "unlocked", "scale", "locked", "done"
  options,             \* getConfiguration's result; Undefined when it returned null
  rooted,              \* the servers the player has admin rights on
  player,              \* player.skills.hacking
  servers,             \* the Server objects, by hostname
  ramTotal,
  hackPercent,
  useEstHackPercent,
  reportServers,       \* `servers` after the report filter (hostnames)
  unlockedServers,
  bestUnlockedServer,
  lockedServers,
  serverEval,
  i,                   \* the index the running map() is at
  scaled,              \* the locals of the lockedServers callback, by hostname
  terminal,            \* what ns.tprint printed
  serverListByGain,    \* the lines of the two logged lists
  serverListByExp,
  file,                \* what ns.write put in /Temp/analyze-hack.txt
  error,               \* the exception that ended main, "" for none
  calls,               \* the calls of getRatesAtHackLevel so far (history)
  lastCall,            \* the last call's arguments and result (history)
  evaluated            \* per hostname, the result of its own evaluation (history)

vars ==
  <<pc, options, rooted, player, servers, ramTotal, hackPercent,
    useEstHackPercent, reportServers, unlockedServers, bestUnlockedServer,
    lockedServers, serverEval, i, scaled, terminal, serverListByGain,
    serverListByExp, file, error, calls, lastCall, evaluated>>

----------------------------------------------------------------------------
(* getRatesAtHackLevel *)

weakenRam == Dec(175, -2)

growRam == Dec(175, -2)

hackRam == Dec(17, -1)

minHackGain == Dec(1, -10)

WeakenCost(r) == Mul(weakenRam, r.weakenTime)

GrowCost(r) ==
  Add(Mul(growRam, r.growTime), Div(Mul(WeakenCost(r), Dec(4, -3)), Dec(5, -2)))

HackCost(r) ==
  Add(Mul(hackRam, r.hackTime), Div(Mul(WeakenCost(r), Dec(2, -3)), Dec(5, -2)))

GrowGain(r) == Ln(r.growPercent)

\* EstHackPercent without the floor at minHackGain
EstHackPercent_NoFloor(ram, r) ==
  MathMin(Dec(98, -2),
          MathMin(Div(Mul(ram, r.hackPercent), HackCost(r)),
                  Sub(One, Div(One, Exp(Div(Mul(ram, GrowGain(r)),
                                            GrowCost(r)))))))

\* server.estHackPercent of the formulas branch
EstHackPercent(ram, r) ==
  MathMax(minHackGain,
          MathMin(Dec(98, -2),
                  MathMin(Div(Mul(ram, r.hackPercent), HackCost(r)),
                          Sub(One, Div(One, Exp(Div(Mul(ram, GrowGain(r)),
                                                    GrowCost(r))))))))

HackProfit(server, hp, r) == Mul(Mul(server.moneyMax, hp), r.hackChance)

TheoreticalGainRate(server, hp, r) ==
  LET growsPerCycle == Div(Neg(LnOneMinus(hp)), GrowGain(r))
      hacksPerCycle == Div(hp, r.hackPercent)
  IN  Mul(Div(HackProfit(server, hp, r),
              Add(Mul(GrowCost(r), growsPerCycle),
                  Mul(HackCost(r), hacksPerCycle))),
          Num(1000))

ExpRate(r) ==
  Mul(Div(Mul(r.hackExp, Add(One, Div(Dec(2, -3), Dec(5, -2)))), HackCost(r)),
      Num(1000))

\* CappedGainRate as the limit alone, not capped by the theoretical rate
CappedGainRate_LimitOnly(theoreticalGainRate, hackProfit, ram) ==
  Div(hackProfit, ram)

CappedGainRate(theoreticalGainRate, hackProfit, ram) ==
  MathMin(theoreticalGainRate, Div(hackProfit, ram))

\* FinallyRestore with the restore left out
FinallyRestore_Skipped(realPlayerHackSkill, current) == current

\* The finally block: player.skills.hacking after the try statement
FinallyRestore(realPlayerHackSkill, current) == realPlayerHackSkill

TimeToHack(weakenTime) == Div(weakenTime, Dec(40, -1))

CappedTimeToHack(timeToHack) == MathMax(timeToHack, Num(200))

RelativeExpGain(server) == Add(Num(3), Mul(server.minDifficulty, Dec(3, -1)))

\* The three rates of the branch without formulas
FallbackRates(server, weakenTime) ==
  <<Div(server.moneyMax, TimeToHack(weakenTime)),
    Div(server.moneyMax, CappedTimeToHack(TimeToHack(weakenTime))),
    Div(RelativeExpGain(server), TimeToHack(weakenTime))>>

\* FallbackAssign that keeps what the try block had already assigned
FallbackAssign_KeepAssigned(locals, rates) ==
  [k \in 1..3 |-> IF locals[k] # Undefined THEN locals[k] ELSE rates[k]]

\* The destructuring assignment of the fallback branch to the three locals
FallbackAssign(locals, rates) == rates

\* getRatesAtHackLevel(server, player, hackLevel) where the formulas API
\* answers r and its call number throwAt throws (0: none does).  The result
\* gives the returned rates and the state the call leaves: the server object,
\* player.skills.hacking and the closure's hackPercent.
GetRatesAtHackLevel(server, skill, hackLevel, r, throwAt) ==
  LET formulas == ~options["disable-formulas-api"]
      ok(k) == throwAt = 0 \/ throwAt > k        \* call k returned
      threw == formulas /\ throwAt # 0
      s1 == IF formulas
            THEN [server EXCEPT !.hackDifficulty = server.minDifficulty,
                                !.moneyAvailable = server.moneyMax]
            ELSE server
      est == EstHackPercent(ramTotal, r)
      s2 == IF formulas /\ ok(5) THEN [s1 EXCEPT !.estHackPercent = est] ELSE s1
      hp == IF formulas /\ ok(5) /\ useEstHackPercent THEN est ELSE hackPercent
      theo == TheoreticalGainRate(s2, hp, r)
      locals == IF ~formulas THEN <<Undefined, Undefined, Undefined>>
                ELSE <<IF ok(6) THEN theo ELSE Undefined,
                       IF ok(7)
                       THEN CappedGainRate(theo, HackProfit(s2, hp, r), ramTotal)
                       ELSE Undefined,
                       IF ok(7) THEN ExpRate(r) ELSE Undefined>>
      skillAfter == IF formulas THEN FinallyRestore(skill, hackLevel) ELSE skill
      useFormulas == formulas /\ ~threw
  IN  IF useFormulas
      THEN [rates |-> locals, server |-> s2, hackPercent |-> hp,
            skill |-> skillAfter, model |-> "formulas", threw |-> FALSE]
      ELSE [rates |-> FallbackAssign(locals,
                        FallbackRates(s2, GetWeakenTime(s2.hostname))),
            server |-> [s2 EXCEPT !.estHackPercent = One],
            hackPercent |-> hp, skill |-> skillAfter, model |-> "fallback",
            threw |-> threw]

\* The record of a call, kept as history
CallRecord(h, hackLevel, res) ==
  [hostname |-> h, hackLevel |-> hackLevel, skillBefore |-> player,
   skillAfter |-> res.skill, threw |-> res.threw,
   disabled |-> options["disable-formulas-api"],
   weakenTime |-> GetWeakenTime(h), moneyMax |-> servers[h].moneyMax,
   minDifficulty |-> servers[h].minDifficulty,
   rates |-> res.rates, model |-> res.model,
   estHackPercent |-> res.server.estHackPercent]

----------------------------------------------------------------------------
(* main *)

\* hostname.startsWith('hacknet')
StartsWithHacknet(h) == h \in {"hacknet-server-0"}

\* The reduce that sums maxRam over the first k servers
RECURSIVE RamTotal(_, _, _)
RamTotal(S, includeHacknet, k) ==
  IF k = 0 THEN Zero
  ELSE LET server == S[serverNames[k]]
           total == RamTotal(S, includeHacknet, k - 1)
       IN  IF ~server.hasAdminRights
              \/ (StartsWithHacknet(server.hostname) /\ ~includeHacknet)
           THEN total
           ELSE Add(total, server.maxRam)

\* HackPercentOutOfRange with the bounds themselves let through
HackPercentOutOfRange_Strict(hp) == Lt(hp, Zero) \/ Gt(hp, One)

\* The range check of an explicit hack-percent
HackPercentOutOfRange(hp) == Le(hp, Zero) \/ Ge(hp, One)

\* The filter down to the servers to report on
ReportFilter(server, all, skill) ==
  /\ ~server.purchasedByPlayer
  /\ Gt(server.moneyMax, Zero)
  /\ (all \/ (server.hasAdminRights /\ server.requiredHackingSkill <= skill))

\* The comparators handed to sort and toSorted: the sign of the difference
Compare(kind, a, b) ==
  CASE kind = "gainRate" ->
         IF IsNaN(a.gainRate) \/ IsNaN(b.gainRate) THEN 0
         ELSE Cmp(b.gainRate, a.gainRate)
    [] kind = "expRate" ->
         IF IsNaN(a.expRate) \/ IsNaN(b.expRate) THEN 0
         ELSE Cmp(b.expRate, a.expRate)
    [] OTHER -> Sgn(a.requiredHackingSkill - b.requiredHackingSkill)

RECURSIVE Insert(_, _, _, _)
Insert(x, sorted, kind, S) ==
  IF sorted = <<>> THEN <<x>>
  ELSE IF Compare(kind, S[x], S[Head(sorted)]) < 0 THEN <<x>> \o sorted
  ELSE <<Head(sorted)>> \o Insert(x, Tail(sorted), kind, S)

\* Array.prototype.sort / toSorted (stable) of a list of servers
RECURSIVE ToSorted(_, _, _)
ToSorted(list, kind, S) ==
  IF list = <<>> THEN <<>>
  ELSE Insert(list[Len(list)], ToSorted(SubSeq(list, 1, Len(list) - 1), kind, S),
              kind, S)

\* list[0]
First(list) == IF list = <<>> THEN Undefined ELSE list[1]

\* ScaleFactor without the guard against a zero denominator
ScaleFactor_Unguarded(real, scaledRate) == Div(real, scaledRate)

\* ScaleFactor with the ratio upside down
ScaleFactor_Inverted(real, scaledRate) ==
  IF Truthy(scaledRate) THEN Div(scaledRate, real) ELSE One

\* gainRateScaleFactor and expRateScaleFactor
ScaleFactor(real, scaledRate) ==
  IF Truthy(scaledRate) THEN Div(real, scaledRate) ELSE One

\* server.gainRate of a locked server
LockedGainRate(theoreticalGainRate, cappedGainRate) ==
  MathMin(theoreticalGainRate, cappedGainRate)

\* The servers the file and the gain list are written from
GainListOrder(list, S) == list

\* The servers the exp list is written from
ExpListOrder(list, S) == list

Min2(a, b) == IF a <= b THEN a ELSE b

Init ==
  /\ pc = "main"
  /\ options \in OptionChoices \cup {Undefined}
  /\ rooted \in RootedChoices
  /\ player \in 1..MaxSkill
  /\ servers = <<>>
  /\ ramTotal = Undefined
  /\ hackPercent = Undefined
  /\ useEstHackPercent = FALSE
  /\ reportServers = <<>>
  /\ unlockedServers = <<>>
  /\ bestUnlockedServer = Undefined
  /\ lockedServers = <<>>
  /\ serverEval = <<>>
  /\ i = 0
  /\ scaled = <<>>
  /\ terminal = <<>>
  /\ serverListByGain = Undefined
  /\ serverListByExp = Undefined
  /\ file = Undefined
  /\ error = ""
  /\ calls = 0
  /\ lastCall = Undefined
  /\ evaluated = <<>>

\* getConfiguration returned null: main returns at once
MainNoOptions ==
  /\ pc = "main"
  /\ options = Undefined
  /\ pc' = "done"
  /\ UNCHANGED <<options, rooted, player, servers, ramTotal, hackPercent,
                 useEstHackPercent, reportServers, unlockedServers,
                 bestUnlockedServer, lockedServers, serverEval, i, scaled,
                 terminal, serverListByGain, serverListByExp, file, error,
                 calls, lastCall, evaluated>>

\* An explicit hack-percent out of range: main prints and returns
MainHackPercentOutOfRange ==
  /\ pc = "main"
  /\ options # Undefined
  /\ options["hack-percent"] # -1
  /\ HackPercentOutOfRange(Div(Num(options["hack-percent"]), Num(100)))
  /\ hackPercent' = Div(Num(options["hack-percent"]), Num(100))
  /\ terminal' = Append(terminal, <<"hack-percent out of range (0-100)">>)
  /\ pc' = "done"
  /\ UNCHANGED <<options, rooted, player, servers, ramTotal,
                 useEstHackPercent, reportServers, unlockedServers,
                 bestUnlockedServer, lockedServers, serverEval, i, scaled,
                 serverListByGain, serverListByExp, file, error,
                 calls, lastCall, evaluated>>

\* main up to the first call of getRatesAtHackLevel
MainSetup ==
  /\ pc = "main"
  /\ options # Undefined
  /\ \/ options["hack-percent"] = -1
     \/ ~HackPercentOutOfRange(Div(Num(options["hack-percent"]), Num(100)))
  /\ LET skill == IF options["at-hack-level"] # 0
                  THEN options["at-hack-level"] ELSE player
         S == [h \in Hosts |-> GetServer(h, rooted)]
         report == SelectSeq(serverNames,
                     LAMBDA h : ReportFilter(S[h], options["all"], skill))
     IN  /\ hackPercent' = Div(Num(options["hack-percent"]), Num(100))
         /\ useEstHackPercent' = (options["hack-percent"] = -1)
         /\ player' = skill
         /\ servers' = S
         /\ ramTotal' = RamTotal(S, options["include-hacknet-ram"],
                                 Len(serverNames))
         /\ reportServers' = report
         /\ unlockedServers' =
              SelectSeq(report, LAMBDA h : S[h].requiredHackingSkill <= skill)
  /\ i' = 1
  /\ pc' = "unlocked"
  /\ UNCHANGED <<options, rooted, bestUnlockedServer, lockedServers,
                 serverEval, scaled, terminal, serverListByGain,
                 serverListByExp, file, error, calls, lastCall, evaluated>>

\* One step of the map over the servers within the hacking level
EvalUnlocked ==
  /\ pc = "unlocked"
  /\ i <= Len(unlockedServers)
  /\ \E r \in Responses, throwAt \in ThrowAt :
       LET h == unlockedServers[i]
       IN  \E res \in {GetRatesAtHackLevel(servers[h], player, player, r, throwAt)} :
           /\ servers' = [servers EXCEPT ![h] =
                [res.server EXCEPT !.theoreticalGainRate = res.rates[1],
                                   !.gainRate = res.rates[2],
                                   !.expRate = res.rates[3]]]
           /\ player' = res.skill
           /\ hackPercent' = res.hackPercent
           /\ lastCall' = CallRecord(h, player, res)
           /\ evaluated' = evaluated @@ (h :> [model |-> res.model,
                                               estModel |-> res.model,
                                               rates |-> res.rates])
  /\ calls' = calls + 1
  /\ i' = i + 1
  /\ UNCHANGED <<pc, options, rooted, ramTotal, useEstHackPercent,
                 reportServers, unlockedServers, bestUnlockedServer,
                 lockedServers, serverEval, scaled, terminal,
                 serverListByGain, serverListByExp, file, error>>

\* The best unlocked server is picked and the locked servers are sorted
SelectBest ==
  /\ pc = "unlocked"
  /\ i > Len(unlockedServers)
  /\ \E sorted \in {ToSorted(unlockedServers, "gainRate", servers)} :
       /\ sorted # <<>>
       /\ bestUnlockedServer' = First(sorted)
  /\ lockedServers' =
       ToSorted(SelectSeq(reportServers,
                  LAMBDA h : servers[h].requiredHackingSkill > player),
                "requiredHackingSkill", servers)
  /\ i' = 1
  /\ pc' = "scale"
  /\ UNCHANGED <<options, rooted, player, servers, ramTotal, hackPercent,
                 useEstHackPercent, reportServers, unlockedServers,
                 serverEval, scaled, terminal, serverListByGain,
                 serverListByExp, file, error, calls, lastCall, evaluated>>

\* No unlocked server: bestUnlockedServer is undefined and reading its
\* hostname throws
SelectBestUndefined ==
  /\ pc = "unlocked"
  /\ i > Len(unlockedServers)
  /\ ToSorted(unlockedServers, "gainRate", servers) = <<>>
  /\ error' = "TypeError: Cannot read properties of undefined (reading 'hostname')"
  /\ pc' = "done"
  /\ UNCHANGED <<options, rooted, player, servers, ramTotal, hackPercent,
                 useEstHackPercent, reportServers, unlockedServers,
                 bestUnlockedServer, lockedServers, serverEval, i, scaled,
                 terminal, serverListByGain, serverListByExp, file,
                 calls, lastCall, evaluated>>

\* A locked server's callback, first half: the best unlocked server at the
\* locked server's level, and the two scale factors
ScaleReference ==
  /\ pc = "scale"
  /\ i <= Len(lockedServers)
  /\ \E r \in Responses, throwAt \in ThrowAt :
       LET h == lockedServers[i]
           b == bestUnlockedServer
           level == servers[h].requiredHackingSkill
       IN  \E res \in {GetRatesAtHackLevel(servers[b], player, level, r, throwAt)} :
           /\ servers' = [servers EXCEPT ![b] = res.server]
           /\ player' = res.skill
           /\ hackPercent' = res.hackPercent
           /\ scaled' = scaled @@ (h :>
                [bestUnlockedScaledGainRate |-> res.rates[1],
                 bestUnlockedScaledExpRate |-> res.rates[3],
                 gainRateScaleFactor |->
                   ScaleFactor(servers[b].theoreticalGainRate, res.rates[1]),
                 expRateScaleFactor |->
                   ScaleFactor(servers[b].expRate, res.rates[3])])
           /\ lastCall' = CallRecord(b, level, res)
           /\ evaluated' = [evaluated EXCEPT ![b].estModel = res.model]
  /\ calls' = calls + 1
  /\ pc' = "locked"
  /\ UNCHANGED <<options, rooted, ramTotal, useEstHackPercent, reportServers,
                 unlockedServers, bestUnlockedServer, lockedServers,
                 serverEval, i, terminal, serverListByGain, serverListByExp,
                 file, error>>

\* A locked server's callback, second half: its own rates at its level, scaled
EvalLocked ==
  /\ pc = "locked"
  /\ \E r \in Responses, throwAt \in ThrowAt :
       LET h == lockedServers[i]
           level == servers[h].requiredHackingSkill
       IN  \E res \in {GetRatesAtHackLevel(servers[h], player, level, r, throwAt)} :
           \E theoreticalGainRate \in
                {Mul(res.rates[1], scaled[h].gainRateScaleFactor)} :
           /\ servers' = [servers EXCEPT ![h] =
                [res.server EXCEPT
                   !.theoreticalGainRate = theoreticalGainRate,
                   !.expRate = Mul(res.rates[3], scaled[h].expRateScaleFactor),
                   !.gainRate = LockedGainRate(theoreticalGainRate, res.rates[2])]]
           /\ player' = res.skill
           /\ hackPercent' = res.hackPercent
           /\ lastCall' = CallRecord(h, level, res)
           /\ evaluated' = evaluated @@ (h :> [model |-> res.model,
                                               estModel |-> res.model,
                                               rates |-> res.rates])
  /\ calls' = calls + 1
  /\ i' = i + 1
  /\ pc' = "scale"
  /\ UNCHANGED <<options, rooted, ramTotal, useEstHackPercent, reportServers,
                 unlockedServers, bestUnlockedServer, lockedServers,
                 serverEval, scaled, terminal, serverListByGain,
                 serverListByExp, file, error>>

\* The lists are combined, summarised, logged and written
Report ==
  /\ pc = "scale"
  /\ i > Len(lockedServers)
  /\ \E eval \in {unlockedServers \o lockedServers} :
     \E bestServer \in {First(ToSorted(eval, "gainRate", servers))},
        bestExpServer \in {First(ToSorted(eval, "expRate", servers))},
        byGain \in {GainListOrder(eval, servers)},
        byExp \in {ExpListOrder(eval, servers)} :
         /\ serverEval' = eval
         /\ terminal' =
              IF options["silent"] THEN terminal
              ELSE terminal
                     \o << <<"Best server: ", bestServer,
                             servers[bestServer].gainRate>>,
                           <<"Best exp server: ", bestExpServer,
                             servers[bestExpServer].expRate>> >>
         /\ serverListByGain' =
              [k \in 1..Len(byGain) |->
                 [hostname |-> byGain[k],
                  gainRate |-> servers[byGain[k]].gainRate,
                  estHackPercent |-> servers[byGain[k]].estHackPercent,
                  requiredHackingSkill |->
                    servers[byGain[k]].requiredHackingSkill]]
         /\ serverListByExp' =
              [k \in 1..Min2(5, Len(byExp)) |->
                 [hostname |-> byExp[k], expRate |-> servers[byExp[k]].expRate]]
         /\ file' =
              [k \in 1..Len(byGain) |->
                 [hostname |-> byGain[k],
                  gainRate |-> servers[byGain[k]].gainRate,
                  expRate |-> servers[byGain[k]].expRate]]
  /\ pc' = "done"
  /\ UNCHANGED <<options, rooted, player, servers, ramTotal, hackPercent,
                 useEstHackPercent, reportServers, unlockedServers,
                 bestUnlockedServer, lockedServers, i, scaled, error,
                 calls, lastCall, evaluated>>

Next ==
  \/ MainNoOptions
  \/ MainHackPercentOutOfRange
  \/ MainSetup
  \/ EvalUnlocked
  \/ SelectBest
  \/ SelectBestUndefined
  \/ ScaleReference
  \/ EvalLocked
  \/ Report

Spec == Init /\ [][Next]_vars

----------------------------------------------------------------------------
(* Properties *)

\* The locked servers whose callback has run to its end
Extrapolated == DOMAIN scaled \cap DOMAIN evaluated

OutOfRangeMessage == <<"hack-percent out of range (0-100)">>

\* C1: no call of getRatesAtHackLevel changes player.skills.hacking, whatever
\* the level asked for and whether the formulas API answers, is disabled or
\* throws; so from the at-hack-level override on the skill never changes.
C1_SkillPreserved == [][pc # "main" => player' = player]_vars

\* C1 witness: a call at a level other than the player's, in which the
\* formulas API threw, has returned
C1_Witness ==
  /\ calls > 0
  /\ lastCall.threw
  /\ lastCall.hackLevel # lastCall.skillBefore
  /\ lastCall.skillAfter = lastCall.skillBefore

\* C2 as claimed: after the run every evaluated target has
\* 0 < estHackPercent <= 0.98, whichever model evaluated it.
C2_EstInRange ==
  pc = "done" =>
    \A h \in DOMAIN evaluated :
      /\ Gt(servers[h].estHackPercent, Zero)
      /\ Le(servers[h].estHackPercent, Dec(98, -2))

\* C2 amended: after the run a target whose estHackPercent was last set by the
\* formulas branch has 1e-10 <= estHackPercent <= 0.98, and one whose
\* estHackPercent was last set by the fallback branch has exactly 1.
C2_EstByModel ==
  pc = "done" =>
    \A h \in DOMAIN evaluated :
      IF evaluated[h].estModel = "formulas"
      THEN /\ Gt(servers[h].estHackPercent, Zero)
           /\ Ge(servers[h].estHackPercent, Dec(1, -10))
           /\ Le(servers[h].estHackPercent, Dec(98, -2))
      ELSE servers[h].estHackPercent = One

\* C2 witness: a finished run with a target at the floor of the formulas
\* branch and a target whose estHackPercent the fallback set
C2_Witness ==
  /\ pc = "done"
  /\ \E h \in DOMAIN evaluated :
       /\ evaluated[h].estModel = "formulas"
       /\ servers[h].estHackPercent = Dec(1, -10)
  /\ \E h \in DOMAIN evaluated :
       /\ evaluated[h].estModel = "fallback"
       /\ servers[h].estHackPercent = One

\* C3: the records written to the file are the evaluated targets in
\* descending order of gainRate.
C3_FileSortedByGain ==
  pc = "done" /\ file # Undefined =>
    /\ {file[k].hostname : k \in 1..Len(file)} = DOMAIN evaluated
    /\ \A k \in 1..(Len(file) - 1) : Ge(file[k].gainRate, file[k + 1].gainRate)

\* C4: the exp list holds min(5, evaluated targets) entries, the ones with the
\* highest exp rates, in descending order of exp rate.
C4_ExpListTopFive ==
  pc = "done" /\ file # Undefined =>
    /\ Len(serverListByExp) = Min2(5, Cardinality(DOMAIN evaluated))
    /\ \A k \in 1..(Len(serverListByExp) - 1) :
         Ge(serverListByExp[k].expRate, serverListByExp[k + 1].expRate)
    /\ \A k \in 1..Len(serverListByExp) :
         \A h \in DOMAIN evaluated :
           \/ \E m \in 1..Len(serverListByExp) : serverListByExp[m].hostname = h
           \/ Ge(serverListByExp[k].expRate, servers[h].expRate)

\* C5: every evaluated target's gainRate is the lesser of its recorded
\* theoreticalGainRate and the capped rate its own evaluation returned, so
\* it never exceeds the theoreticalGainRate.
C5_GainRateIsMin ==
  \A h \in DOMAIN evaluated :
    /\ servers[h].gainRate =
         MathMin(servers[h].theoreticalGainRate, evaluated[h].rates[2])
    /\ Le(servers[h].gainRate, servers[h].theoreticalGainRate)

\* C5 witness: a finished run with a formulas-evaluated locked target whose
\* cap binds and an unlocked target evaluated by the fallback whose cap binds
C5_Witness ==
  /\ pc = "done"
  /\ \E h \in Extrapolated :
       /\ evaluated[h].model = "formulas"
       /\ Lt(servers[h].gainRate, servers[h].theoreticalGainRate)
  /\ \E h \in DOMAIN evaluated \ DOMAIN scaled :
       /\ evaluated[h].model = "fallback"
       /\ Lt(servers[h].gainRate, servers[h].theoreticalGainRate)

\* C6: a call in which the formulas API is disabled or throws returns, with
\* no exception, the fallback's three rates moneyMax/(weakenTime/4),
\* moneyMax/max(weakenTime/4, 200) and (3 + 0.3*minDifficulty)/(weakenTime/4),
\* and leaves estHackPercent at exactly 1.
C6_FallbackOnFailure ==
  calls > 0 /\ (lastCall.disabled \/ lastCall.threw) =>
    /\ lastCall.model = "fallback"
    /\ error = ""
    /\ lastCall.estHackPercent = One
    /\ lastCall.rates =
         <<Div(Mul(Num(4), lastCall.moneyMax), lastCall.weakenTime),
           IF Ge(lastCall.weakenTime, Num(800))
           THEN Div(Mul(Num(4), lastCall.moneyMax), lastCall.weakenTime)
           ELSE Div(lastCall.moneyMax, Num(200)),
           Div(Mul(Num(4), Add(Num(3), Mul(Dec(3, -1), lastCall.minDifficulty))),
               lastCall.weakenTime)>>

\* C6 witness: the first call threw after the formulas branch had already
\* set hackPercent from its estimate, and returned
C6_Witness ==
  /\ calls = 1
  /\ lastCall.threw
  /\ useEstHackPercent
  /\ Gt(hackPercent, Zero)

\* C7: an explicit hack-percent with hack-percent/100 outside (0, 1) ends main
\* with the error message before any call, rate or write; any other
\* hack-percent lets main go on to the scoring.
C7_OutOfRangeAborts ==
  pc # "main" /\ options # Undefined =>
    IF options["hack-percent"] # -1
       /\ (options["hack-percent"] <= 0 \/ options["hack-percent"] >= 100)
    THEN /\ pc = "done"
         /\ terminal = <<OutOfRangeMessage>>
         /\ calls = 0
         /\ DOMAIN evaluated = {}
         /\ DOMAIN servers = {}
         /\ file = Undefined
    ELSE /\ \A k \in 1..Len(terminal) : terminal[k] # OutOfRangeMessage
         /\ ramTotal # Undefined
         /\ DOMAIN servers = Hosts

\* C7 witness: main has ended on hack-percent 150
C7_Witness ==
  /\ pc = "done"
  /\ options # Undefined
  /\ options["hack-percent"] = 150
  /\ terminal = <<OutOfRangeMessage>>

\* C8: with no unlocked server among the reported ones, main ends in an error
\* that names the condition, with no scale factor, no extrapolation and no
\* write.
C8_NoBaselineError ==
  pc = "done" /\ ramTotal # Undefined /\ unlockedServers = <<>> =>
    /\ error \in {"no baseline", "no reachable target"}
    /\ DOMAIN scaled = {}
    /\ DOMAIN evaluated = {}
    /\ file = Undefined

\* C9: for a locked server, a zero rate of the best unlocked server at its
\* level gives the scale factor 1, for the gain rate and for the exp rate
\* each on its own, and the projected rate is then the server's own.
C9_ZeroDenominatorDefault ==
  \A h \in DOMAIN scaled :
    /\ scaled[h].bestUnlockedScaledGainRate = Zero =>
         /\ scaled[h].gainRateScaleFactor = One
         /\ h \in DOMAIN evaluated =>
              servers[h].theoreticalGainRate = evaluated[h].rates[1]
    /\ scaled[h].bestUnlockedScaledExpRate = Zero =>
         /\ scaled[h].expRateScaleFactor = One
         /\ h \in DOMAIN evaluated =>
              servers[h].expRate = evaluated[h].rates[3]

\* C9 witness: a locked server scaled with a zero gain denominator and a
\* non-zero exp denominator, and one the other way round
C9_Witness ==
  /\ \E h \in Extrapolated :
       /\ scaled[h].bestUnlockedScaledGainRate = Zero
       /\ scaled[h].bestUnlockedScaledExpRate # Zero
       /\ scaled[h].expRateScaleFactor # One
       /\ servers[h].theoreticalGainRate # Zero
  /\ \E h \in Extrapolated :
       /\ scaled[h].bestUnlockedScaledExpRate = Zero
       /\ scaled[h].bestUnlockedScaledGainRate # Zero
       /\ scaled[h].gainRateScaleFactor # One
       /\ servers[h].expRate # Zero

\* What C10 says of locked server h apart from the two scale factors
ExtrapolatedAsClaimed(h) ==
  /\ \A u \in 1..Len(unlockedServers) :
       Ge(servers[bestUnlockedServer].gainRate,
          servers[unlockedServers[u]].gainRate)
  /\ \A k \in 1..(Len(lockedServers) - 1) :
       servers[lockedServers[k]].requiredHackingSkill
         <= servers[lockedServers[k + 1]].requiredHackingSkill
  /\ servers[h].theoreticalGainRate =
       Mul(evaluated[h].rates[1], scaled[h].gainRateScaleFactor)
  /\ servers[h].expRate = Mul(evaluated[h].rates[3], scaled[h].expRateScaleFactor)
  /\ servers[h].gainRate =
       MathMin(servers[h].theoreticalGainRate, evaluated[h].rates[2])

\* C10 as claimed: for every locked server the scale factors are the ratios
\* of the best unlocked server's recorded rates to its rates at the locked
\* server's level, and the projected rates follow from them.
C10_ScaleFactorsAreRatios ==
  \A h \in Extrapolated :
    /\ ExtrapolatedAsClaimed(h)
    /\ scaled[h].gainRateScaleFactor =
         Div(servers[bestUnlockedServer].theoreticalGainRate,
             scaled[h].bestUnlockedScaledGainRate)
    /\ scaled[h].expRateScaleFactor =
         Div(servers[bestUnlockedServer].expRate,
             scaled[h].bestUnlockedScaledExpRate)

\* C10 amended: each scale factor is that ratio when its denominator is not
\* zero and is 1 when it is; the rest as claimed.
C10_ScaleFactorsAreGuardedRatios ==
  \A h \in Extrapolated :
    /\ ExtrapolatedAsClaimed(h)
    /\ scaled[h].gainRateScaleFactor =
         IF scaled[h].bestUnlockedScaledGainRate \in {Zero, NaN}
         THEN One
         ELSE Div(servers[bestUnlockedServer].theoreticalGainRate,
                  scaled[h].bestUnlockedScaledGainRate)
    /\ scaled[h].expRateScaleFactor =
         IF scaled[h].bestUnlockedScaledExpRate \in {Zero, NaN}
         THEN One
         ELSE Div(servers[bestUnlockedServer].expRate,
                  scaled[h].bestUnlockedScaledExpRate)

\* C10 witness: two locked servers were taken in ascending order of required
\* skill, against scan order, one with both denominators non-zero and
\* both factors other than 0 and 1
C10_Witness ==
  /\ pc = "done"
  /\ lockedServers = <<"foodnstuff", "joesguns">>
  /\ \E h \in Extrapolated :
       /\ scaled[h].bestUnlockedScaledGainRate # Zero
       /\ scaled[h].bestUnlockedScaledExpRate # Zero
       /\ scaled[h].gainRateScaleFactor \notin {Zero, One}
       /\ scaled[h].expRateScaleFactor \notin {Zero, One}
       /\ Lt(servers[h].gainRate, servers[h].theoreticalGainRate)

====
